---- MODULE Spec2Model ----
(***************************************************************************)
(* Spec3D: 3D audio visualizer.  A model of the AudioController (spectral  *)
(* sampler), the bar binner of the real-time loop, WaveformModel3D (the    *)
(* spatial waveform and its progress marker), FourierVisualizer (the lab)  *)
(* and the main program's tick, upload and pointer handlers.               *)
(*                                                                         *)
(* Numbers that are fractions in the program (times, progress, positions,  *)
(* samples, the spread factor) are exact rationals <<num, den>>.           *)
(***************************************************************************)
EXTENDS Integers, Sequences, FiniteSets, TLC

VARIABLES
    audioController,   \* fields of AudioController, its analyser and audio element
    waveformModel,     \* fields of WaveformModel3D
    fourierVisualizer, \* fields of FourierVisualizer
    settings,          \* educationalUI.settings
    mainState,         \* module-level lets of the main program
    loads,             \* upload handlers suspended at an await
    info,              \* the status text of educationalUI.updateInfo
    uploaded,          \* history: the file of the latest onFileLoaded call (0: none)
    frequencyData,     \* the frequency snapshot read by the real-time loop
    barValues,         \* the value the real-time loop computed for every bar
    last               \* the last operation, its input and its outcome

vars == <<audioController, waveformModel, fourierVisualizer, settings,
          mainState, loads, info, uploaded, frequencyData, barValues, last>>

-----------------------------------------------------------------------------
(* Exact rational arithmetic.                                              *)

RECURSIVE GCD(_, _)
GCD(a, b) == IF b = 0 THEN a ELSE GCD(b, a % b)

Abs(a) == IF a < 0 THEN -a ELSE a

Rat(n, d) ==
    LET g == GCD(Abs(n), Abs(d))
        s == IF d < 0 THEN -1 ELSE 1
    IN  <<(s * n) \div g, (s * d) \div g>>

RInt(n) == <<n, 1>>
RAdd(a, b) == Rat(a[1] * b[2] + b[1] * a[2], a[2] * b[2])
RSub(a, b) == Rat(a[1] * b[2] - b[1] * a[2], a[2] * b[2])
RMul(a, b) ==
    LET x == Rat(a[1], b[2])
        y == Rat(b[1], a[2])
    IN  Rat(x[1] * y[1], x[2] * y[2])
RDiv(a, b) == RMul(a, Rat(b[2], b[1]))
RLe(a, b) == a[1] * b[2] <= b[1] * a[2]
RLt(a, b) == a[1] * b[2] < b[1] * a[2]
RMin(a, b) == IF RLe(a, b) THEN a ELSE b
RMax(a, b) == IF RLe(a, b) THEN b ELSE a
RFloor(a) == a[1] \div a[2]
RZero == RInt(0)
ROne == RInt(1)

-----------------------------------------------------------------------------
(* AudioController (the spectral sampler and the playback transport).      *)

RECURSIVE BitAnd(_, _)
BitAnd(a, b) ==
    IF a = 0 \/ b = 0 THEN 0
    ELSE (a % 2) * (b % 2) + 2 * BitAnd(a \div 2, b \div 2)

MinFFTSize == 32
MaxFFTSize == 32768

\* The analyser node of the Web Audio API: fftSize accepts a power of two in
\* [32, 32768] and throws otherwise; frequencyBinCount is half of fftSize.
AnalyserAccepts(size) ==
    /\ size >= 32
    /\ size <= 32768
    /\ \E k \in 5..15 : size = 2^k

FrequencyBinCount(fftSize) == fftSize \div 2

DefaultFFTSize == 512

AudioControllerInit ==
    [ fftSize           |-> DefaultFFTSize,
      analyserFftSize   |-> DefaultFFTSize,
      frequencyDataLen  |-> FrequencyBinCount(DefaultFFTSize),
      timeDomainDataLen |-> DefaultFFTSize,
      micSource         |-> FALSE,
      fileSource        |-> FALSE,
      audioElement      |-> FALSE,
      elementAttached   |-> FALSE,
      src               |-> 0,
      paused            |-> TRUE,
      currentTime       |-> RZero,
      currentSourceType |-> "none",
      contextSuspended  |-> TRUE,
      threw             |-> FALSE ]

\* Faulty variants of the guard: one that stops short of
\* 32768, one that forgets the power-of-two test.
SetFFTSizeRejectsTopExcluded(size) ==
    \/ size < MinFFTSize
    \/ size >= MaxFFTSize
    \/ BitAnd(size, size - 1) # 0

SetFFTSizeRejectsRangeOnly(size) ==
    \/ size < MinFFTSize
    \/ size > MaxFFTSize

SetFFTSizeRejects(size) ==
    \/ size < MinFFTSize
    \/ size > MaxFFTSize
    \/ BitAnd(size, size - 1) # 0

setFFTSize(ac, size) ==
    IF SetFFTSizeRejects(size)
    THEN [ac EXCEPT !.threw = FALSE]
    ELSE IF ~AnalyserAccepts(size)
         THEN [ac EXCEPT !.fftSize = size, !.threw = TRUE]
         ELSE [ac EXCEPT !.fftSize = size,
                         !.analyserFftSize = size,
                         !.frequencyDataLen = FrequencyBinCount(size),
                         !.timeDomainDataLen = size,
                         !.threw = FALSE]

getFFTSize(ac) == ac.fftSize

\* The snapshots are the controller's own buffers, filled by the analyser;
\* what the callers of this model use of a snapshot is its length.
getFrequencyDataLen(ac) == ac.frequencyDataLen
getTimeDomainDataLen(ac) == ac.timeDomainDataLen

isPlaying(ac) == IF ac.audioElement THEN ~ac.paused ELSE FALSE

getCurrentTime(ac) == IF ac.audioElement THEN ac.currentTime ELSE RZero

disconnectAllSources(ac) ==
    LET a == [ac EXCEPT !.micSource = FALSE, !.fileSource = FALSE]
    IN  IF a.audioElement
        THEN [a EXCEPT !.paused = TRUE, !.currentTime = RZero]
        ELSE a

-----------------------------------------------------------------------------
(* The audio files and the tracks they decode to.  File 1 is ten seconds   *)
(* at 44100 Hz, file 2 two minutes at 44100 Hz and file 3 a short track of *)
(* twelve samples at 4 Hz.  The samples are a fixed pattern over           *)
(* {-1, -1/2, 0, 1/2, 1}.                                                  *)

Files == {1, 2, 3}

SampleRate(f) == IF f = 3 THEN 4 ELSE 44100

SampleCount(f) ==
    CASE f = 1 -> 441000
      [] f = 2 -> 5292000
      [] OTHER -> 12

Duration(f) == Rat(SampleCount(f), SampleRate(f))

ChannelData(f, i) == Rat(((i * 7 + f) % 5) - 2, 2)

-----------------------------------------------------------------------------
(* WaveformModel3D: the spatial waveform, its hit-surface and its marker.  *)

targetPoints == 8000
baseLength == 60
amplitudeScale == 6

NoLine == [exists |-> FALSE, count |-> 0, step |-> 0, length |-> RZero, track |-> 0]
NoHitArea == [exists |-> FALSE, width |-> RZero, height |-> RZero]
NoIndicator == [exists |-> FALSE, x |-> RZero, y |-> RZero]

\* The children of the model's group, counted by what they are.
NoChildren ==
    [waveformLine |-> 0, hitArea |-> 0, progressIndicator |-> 0,
     progressLine |-> 0, gridLines |-> 0]

ChildCount(c) ==
    c.waveformLine + c.hitArea + c.progressIndicator + c.progressLine
        + c.gridLines

WaveformModelInit ==
    [ audioBuffer       |-> 0,
      spreadFactor      |-> ROne,
      isPlaying         |-> FALSE,
      visible           |-> TRUE,
      positionX         |-> RZero,
      waveformLine      |-> NoLine,
      hitArea           |-> NoHitArea,
      progressIndicator |-> NoIndicator,
      children          |-> NoChildren,
      created           |-> 0,
      disposed          |-> 0 ]

\* created and disposed meter the geometries constructed and disposed while
\* one handler runs; a handler starts with both at zero.
resetMeters(wm) == [wm EXCEPT !.created = 0, !.disposed = 0]

\* A faulty variant: the references are dropped and the group keeps its
\* children.
clearMeshesKeepsChildren(wm) ==
    [wm EXCEPT !.waveformLine = NoLine,
               !.hitArea = NoHitArea,
               !.progressIndicator = NoIndicator]

\* Every child is a Line or a Mesh: each is removed and its geometry
\* disposed.
clearMeshes(wm) ==
    [wm EXCEPT !.waveformLine = NoLine,
               !.hitArea = NoHitArea,
               !.progressIndicator = NoIndicator,
               !.disposed = @ + ChildCount(wm.children),
               !.children = NoChildren]

Max(a, b) == IF a >= b THEN a ELSE b

Step(n) == Max(1, n \div targetPoints)

\* The number of passes of "for (i = 0; i < n; i += step)": one for each of
\* 0, step, 2 * step, ... below n.
LoopCount(n, step) == (n + step - 1) \div step

createHitArea(length, scale) ==
    [exists |-> TRUE, width |-> length, height |-> RInt(scale * 2)]

createProgressIndicator(length) ==
    [exists |-> TRUE, x |-> RSub(RZero, RDiv(length, RInt(2))), y |-> RZero]

\* addReadableGrid: a line at every whole second that falls on the
\* waveform, and nine amplitude lines.
AmplitudeLines == 9

GridLineCount(f) == (RFloor(Duration(f)) + 1) + AmplitudeLines

\* A faulty variant: a line that exists keeps its length, and only a first
\* build takes the length from the spread factor.
generateDynamicWaveformKeepsLength(wm) ==
    IF wm.audioBuffer = 0 THEN wm
    ELSE
        LET n == SampleCount(wm.audioBuffer)
            step == Step(n)
            length == IF wm.waveformLine.exists THEN wm.waveformLine.length
                      ELSE RMul(RInt(baseLength), wm.spreadFactor)
            grid == GridLineCount(wm.audioBuffer)
        IN  [clearMeshes(wm) EXCEPT
                !.waveformLine = [exists |-> TRUE,
                                  count  |-> LoopCount(n, step),
                                  step   |-> step,
                                  length |-> length,
                                  track  |-> wm.audioBuffer],
                !.hitArea = createHitArea(length, amplitudeScale),
                !.progressIndicator = createProgressIndicator(length),
                !.children = [waveformLine      |-> @.waveformLine + 1,
                              hitArea           |-> @.hitArea + 1,
                              progressIndicator |-> @.progressIndicator + 1,
                              progressLine      |-> @.progressLine + 1,
                              gridLines         |-> @.gridLines + grid],
                !.created = @ + 4 + grid]

generateDynamicWaveform(wm) ==
    IF wm.audioBuffer = 0 THEN wm
    ELSE
        LET n == SampleCount(wm.audioBuffer)
            step == Step(n)
            length == RMul(RInt(baseLength), wm.spreadFactor)
            grid == GridLineCount(wm.audioBuffer)
        IN  [clearMeshes(wm) EXCEPT
                !.waveformLine = [exists |-> TRUE,
                                  count  |-> LoopCount(n, step),
                                  step   |-> step,
                                  length |-> length,
                                  track  |-> wm.audioBuffer],
                !.hitArea = createHitArea(length, amplitudeScale),
                !.progressIndicator = createProgressIndicator(length),
                !.children = [waveformLine      |-> @.waveformLine + 1,
                              hitArea           |-> @.hitArea + 1,
                              progressIndicator |-> @.progressIndicator + 1,
                              progressLine      |-> @.progressLine + 1,
                              gridLines         |-> @.gridLines + grid],
                !.created = @ + 4 + grid]

\* Point k (from 0) of the waveform line, built from sample i = k * step.
PointX(line, k) ==
    LET progress == Rat(k * line.step, SampleCount(line.track))
    IN  RSub(RMul(progress, line.length), RDiv(line.length, RInt(2)))

PointY(line, k) ==
    RMul(ChannelData(line.track, k * line.step), RInt(amplitudeScale))

\* A faulty variant: progress as the fraction of a minute played.
PlaybackProgressOfMinute(wm, currentTime) == RDiv(currentTime, RInt(60))

PlaybackProgress(wm, currentTime) == RDiv(currentTime, Duration(wm.audioBuffer))

updatePlaybackLength == 60

updatePlayback(wm, currentTime, playing) ==
    IF wm.audioBuffer = 0 \/ ~wm.progressIndicator.exists THEN wm
    ELSE
        LET progress == PlaybackProgress(wm, currentTime)
            length == RInt(updatePlaybackLength)
            x == RSub(RMul(progress, length), RDiv(length, RInt(2)))
            n == SampleCount(wm.audioBuffer)
            sampleIndex == RFloor(RMul(progress, RInt(n)))
            sample == IF sampleIndex >= 0 /\ sampleIndex < n
                      THEN ChannelData(wm.audioBuffer, sampleIndex)
                      ELSE RZero
        IN  [wm EXCEPT !.isPlaying = playing,
                       !.progressIndicator =
                           [exists |-> TRUE, x |-> x,
                            y |-> RMul(sample, RInt(amplitudeScale))]]

getHitArea(wm) == wm.hitArea

\* group.worldToLocal: the group is never rotated or scaled, so the local
\* point is the world point less the group's position.
calculateProgressFromPoint(wm, pointX) ==
    LET localX == RSub(pointX, wm.positionX)
        length == RMul(RInt(baseLength), wm.spreadFactor)
        progress == RDiv(RAdd(localX, RDiv(length, RInt(2))), length)
    IN  RMin(RMax(progress, RZero), ROne)

\* The world x of the point a given fraction of the way across the
\* hit-surface, a plane of the built width centred on the group.
SurfacePointX(wm, frac) ==
    RAdd(wm.positionX, RMul(RSub(frac, Rat(1, 2)), wm.hitArea.width))

getProgressPositionX(wm) ==
    IF wm.progressIndicator.exists THEN wm.progressIndicator.x ELSE RZero

\* A faulty variant: the new factor is stored and nothing is rebuilt.
setSpreadNoRebuild(wm, spread) ==
    IF wm.spreadFactor # spread THEN [wm EXCEPT !.spreadFactor = spread] ELSE wm

\* A faulty variant: without a track the new factor is not kept.
setSpreadNeedsTrack(wm, spread) ==
    IF wm.spreadFactor # spread /\ wm.audioBuffer # 0
    THEN generateDynamicWaveform([wm EXCEPT !.spreadFactor = spread])
    ELSE wm

\* A faulty variant: the waveform is rebuilt whether or not the factor is
\* new.
setSpreadAlwaysRebuilds(wm, spread) ==
    LET w == [wm EXCEPT !.spreadFactor = spread]
    IN  IF w.audioBuffer # 0 THEN generateDynamicWaveform(w) ELSE w

setSpread(wm, spread) ==
    IF wm.spreadFactor # spread
    THEN LET w == [wm EXCEPT !.spreadFactor = spread]
         IN  IF w.audioBuffer # 0 THEN generateDynamicWaveform(w) ELSE w
    ELSE wm

show(wm) == [wm EXCEPT !.visible = TRUE]

\* A faulty variant: hiding the model also clears its geometry, as clear()
\* does.
hideClears(wm) == clearMeshes([wm EXCEPT !.visible = FALSE])

hide(wm) == [wm EXCEPT !.visible = FALSE]

getAudioInfo(wm) == wm.audioBuffer

\* A faulty variant: a failed decode drops the track and its geometry.
loadAudioFileSettledClears(wm, file, ok) ==
    IF ok THEN generateDynamicWaveform([wm EXCEPT !.audioBuffer = file])
    ELSE clearMeshes([wm EXCEPT !.audioBuffer = 0])

\* loadAudioFile once the decode has settled: the track is stored and the
\* waveform built, or the error is thrown on with the model untouched.
loadAudioFileSettled(wm, file, ok) ==
    IF ok THEN generateDynamicWaveform([wm EXCEPT !.audioBuffer = file])
    ELSE wm

-----------------------------------------------------------------------------
(* The bar binner: the real-time pipeline of the animation loop with       *)
(* average sampling.  frequencyData is the snapshot (a sequence of bytes,  *)
(* bin k of the program at position k + 1).  Math.floor((index /           *)
(* BAR_COUNT) * totalBins) is computed in doubles; the analyser's bin      *)
(* counts are powers of two, for which the product is exact and the floor  *)
(* is that of the exact quotient.                                          *)

startBinOf(index, barCount, totalBins) == (index * totalBins) \div barCount

\* A faulty variant: the range ends a fixed stride after its start.
endBinOfStride(index, barCount, totalBins) ==
    startBinOf(index, barCount, totalBins) + (totalBins \div barCount)

endBinOf(index, barCount, totalBins) == ((index + 1) * totalBins) \div barCount

RECURSIVE SumBins(_, _, _)
SumBins(data, from, to) ==
    IF from >= to THEN 0 ELSE data[from + 1] + SumBins(data, from + 1, to)

\* frequencyData[i] || 0: an index past the end reads as 0.
BinOrZero(data, i) == IF i >= 0 /\ i < Len(data) THEN data[i + 1] ELSE 0

\* A faulty variant: an empty range reads the bin after its end.
barValueOfEndBin(data, index, barCount) ==
    LET startBin == startBinOf(index, barCount, Len(data))
        endBin == endBinOf(index, barCount, Len(data))
    IN  IF endBin > startBin
        THEN Rat(SumBins(data, startBin, endBin), endBin - startBin)
        ELSE RInt(BinOrZero(data, endBin + 1))

barValueOf(data, index, barCount) ==
    LET startBin == startBinOf(index, barCount, Len(data))
        endBin == endBinOf(index, barCount, Len(data))
    IN  IF endBin > startBin
        THEN Rat(SumBins(data, startBin, endBin), endBin - startBin)
        ELSE RInt(BinOrZero(data, startBin))

\* visualizer.meshes.forEach: one value per bar mesh, bar index at position
\* index + 1.
reduceBars(data, barCount) ==
    [j \in 1..barCount |-> barValueOf(data, j - 1, barCount)]

-----------------------------------------------------------------------------
(* The state after the main program's set-up.                              *)

DefaultBarCount == 64
DefaultRadius == 10

\* The constructor sets no showModelInFourier; the tick reads it, where an
\* unset field counts as false.
SettingsInit ==
    [ fftSize            |-> DefaultFFTSize,
      barCount           |-> DefaultBarCount,
      radius             |-> DefaultRadius,
      visualizationMode  |-> "realtime",
      waveformSpread     |-> ROne,
      showModelInFourier |-> FALSE ]

MainInit ==
    [ isDragging       |-> FALSE,
      controlsEnabled  |-> TRUE,
      BAR_COUNT        |-> DefaultBarCount,
      RADIUS           |-> DefaultRadius,
      previousFFTSize  |-> DefaultFFTSize,
      previousBarCount |-> DefaultBarCount,
      previousRadius   |-> DefaultRadius,
      previousSpread   |-> ROne,
      meshCount        |-> DefaultBarCount,
      meshesVisible    |-> TRUE ]

\* audioElement.play(): an element that has played to its end starts over.
elementPlay(ac) ==
    [ac EXCEPT !.paused = FALSE,
               !.currentTime = IF ac.src # 0 /\ @ = Duration(ac.src)
                               THEN RZero ELSE @]

play(ac) ==
    IF ac.audioElement /\ ac.currentSourceType = "file"
    THEN elementPlay(ac)
    ELSE ac

pause(ac) ==
    IF ac.audioElement /\ ac.currentSourceType = "file"
    THEN [ac EXCEPT !.paused = TRUE]
    ELSE ac

\* The audio element keeps its position within the resource it plays.
seek(ac, time) ==
    IF ac.audioElement /\ ac.currentSourceType = "file"
    THEN [ac EXCEPT !.currentTime = RMin(RMax(time, RZero), Duration(ac.src))]
    ELSE ac

\* setupAudioFile up to its first await.  createMediaElementSource on an
\* element that already feeds a source node throws in browsers that allow
\* one node per element (attachThrows); the context may be suspended, in
\* which case the method waits for resume() before it goes on.
setupAudioFileBegin(ac, file, attachThrows) ==
    LET a == disconnectAllSources(ac)
        b == [a EXCEPT !.audioElement = TRUE, !.src = file,
                       !.paused = TRUE, !.currentTime = RZero]
    IN  IF b.elementAttached /\ attachThrows
        THEN [b EXCEPT !.threw = TRUE]
        ELSE [b EXCEPT !.fileSource = TRUE, !.elementAttached = TRUE,
                       !.threw = FALSE]

\* setupAudioFile after the context is running: the source type is recorded
\* and audioElement.play() is called.
setupAudioFileResumed(ac) ==
    elementPlay([ac EXCEPT !.contextSuspended = FALSE,
                           !.currentSourceType = "file"])

-----------------------------------------------------------------------------
(* FourierVisualizer (the lab): its group, the moving time plane with the  *)
(* hit-surface, and the bars.                                              *)

planeSize == 50
planeDistance == 60
InitialLabBarCount == 48
LabPositionZ == 40
\* The points of the complex-waveform line, one per time-domain sample read.
complexWaveformPoints == 512

FourierInit ==
    [ visible     |-> FALSE,
      barCount    |-> InitialLabBarCount,
      spectrumBars |-> InitialLabBarCount,
      sineWaves   |-> InitialLabBarCount,
      hitArea     |-> TRUE,
      complexWaveformLines |-> 1,
      complexWaveformNaNs  |-> 0,
      positionZ   |-> RZero,
      timePlaneX  |-> RZero,
      timePlaneZ  |-> RZero ]

\* clearComponents removes and disposes the bars and the sine-wave lines.
fourierClearComponents(fv) == [fv EXCEPT !.spectrumBars = 0, !.sineWaves = 0]

\* setupComponents adds a new complex-waveform line to the time plane (its
\* positions start at 0) and one bar and one sine-wave line per bar.
fourierSetupComponents(fv) ==
    [fv EXCEPT !.complexWaveformLines = @ + 1,
               !.complexWaveformNaNs = 0,
               !.spectrumBars = @ + fv.barCount,
               !.sineWaves = @ + fv.barCount]

fourierUpdateBarCount(fv, count) ==
    IF fv.barCount = count THEN fv
    ELSE fourierSetupComponents(
             fourierClearComponents([fv EXCEPT !.barCount = count]))

\* update: the time plane is moved to the tracking position, taken into the
\* group's frame (the group is only ever moved along z).  The complex
\* waveform takes timeData[i] for every i below complexWaveformPoints; an
\* index at or past the snapshot's length reads undefined, and the point's
\* y becomes NaN.
fourierUpdate(fv, timeDataLen, trackingX, trackingZ) ==
    IF ~fv.visible THEN fv
    ELSE [fv EXCEPT !.timePlaneX = trackingX,
                    !.timePlaneZ = RSub(trackingZ, fv.positionZ),
                    !.complexWaveformNaNs =
                        Max(0, complexWaveformPoints - timeDataLen)]

fourierSetPosition(fv, z) == [fv EXCEPT !.positionZ = z]

\* The world z of every point of the lab's hit-surface, a plane facing z.
FourierHitZ(fv) == RAdd(fv.positionZ, fv.timePlaneZ)

fourierCalculateProgressFromPoint(fv, pointZ) ==
    LET localZ == RSub(pointZ, fv.positionZ)
        progress == RDiv(localZ, RInt(planeDistance))
    IN  RMin(RMax(progress, RZero), ROne)

-----------------------------------------------------------------------------
(* The main program: scrubbing.  A ray is what the raycaster finds for the *)
(* pointer: wf is where it meets the waveform hit-surface (a fraction of   *)
(* the way across, or Miss), fr whether it meets the lab's hit-surface.    *)

Miss == <<-1, 0>>
NoSeek == <<-1, 0>>

seekAudio(progress, wm, ac) ==
    IF getAudioInfo(wm) # 0
    THEN LET seekTime == RMul(progress, Duration(wm.audioBuffer))
         IN  [ac |-> seek(ac, seekTime), seek |-> seekTime]
    ELSE [ac |-> ac, seek |-> NoSeek]

\* A faulty variant: a ray that meets nothing seeks to the start.
handleScrubbingSeeksOnMiss(type, ray, wm, fv, ac) ==
    IF type = "waveform"
    THEN IF getHitArea(wm).exists /\ ray.wf # Miss
         THEN seekAudio(calculateProgressFromPoint(wm, SurfacePointX(wm, ray.wf)),
                        wm, ac)
         ELSE seekAudio(RZero, wm, ac)
    ELSE IF fv.hitArea /\ ray.fr
         THEN seekAudio(fourierCalculateProgressFromPoint(fv, FourierHitZ(fv)),
                        wm, ac)
         ELSE seekAudio(RZero, wm, ac)

handleScrubbing(type, ray, wm, fv, ac) ==
    IF type = "waveform"
    THEN IF ~getHitArea(wm).exists THEN [ac |-> ac, seek |-> NoSeek]
         ELSE IF ray.wf # Miss
              THEN seekAudio(
                       calculateProgressFromPoint(wm, SurfacePointX(wm, ray.wf)),
                       wm, ac)
              ELSE [ac |-> ac, seek |-> NoSeek]
    ELSE IF ~fv.hitArea THEN [ac |-> ac, seek |-> NoSeek]
         ELSE IF ray.fr
              THEN seekAudio(
                       fourierCalculateProgressFromPoint(fv, FourierHitZ(fv)),
                       wm, ac)
              ELSE [ac |-> ac, seek |-> NoSeek]

NoLast == [op |-> "none"]

InitRest ==
    /\ audioController = AudioControllerInit
    /\ waveformModel = hide(WaveformModelInit)
    /\ fourierVisualizer = FourierInit
    /\ settings = SettingsInit
    /\ mainState = MainInit
    /\ loads = <<>>
    /\ info = ""
    /\ uploaded = 0
    /\ barValues = <<>>
    /\ last = NoLast

InitAll ==
    /\ InitRest
    /\ frequencyData = <<>>

-----------------------------------------------------------------------------
(* SpecAudio: the AudioController driven directly through its methods.     *)

MaxSizeExp == 17

SizeInputs ==
    {2^k : k \in 0..MaxSizeExp} \cup
    {-32768, -64, -1, 0, 3, 31, 33, 48, 100, 1000, 4095, 32767, 32769, 50000}

CallSetFFTSize ==
    \E size \in SizeInputs :
        /\ audioController' = setFFTSize(audioController, size)
        /\ last' = [op |-> "setFFTSize", size |-> size,
                    before |-> audioController]
        /\ UNCHANGED <<waveformModel, fourierVisualizer, settings, mainState,
                       loads, info, uploaded, frequencyData, barValues>>

CallGetFrequencyData ==
    /\ last' = [op |-> "getFrequencyData",
                len |-> getFrequencyDataLen(audioController)]
    /\ UNCHANGED <<audioController, waveformModel, fourierVisualizer, settings,
                   mainState, loads, info, uploaded, frequencyData, barValues>>

CallGetTimeDomainData ==
    /\ last' = [op |-> "getTimeDomainData",
                len |-> getTimeDomainDataLen(audioController)]
    /\ UNCHANGED <<audioController, waveformModel, fourierVisualizer, settings,
                   mainState, loads, info, uploaded, frequencyData, barValues>>

NextAudio == CallSetFFTSize \/ CallGetFrequencyData \/ CallGetTimeDomainData

SpecAudio == InitAll /\ [][NextAudio]_vars

-----------------------------------------------------------------------------
(* SpecBinner: the real-time pipeline applied to snapshots of several      *)
(* lengths and to several bar counts.  The lengths are the analyser's bin  *)
(* counts for fftSize 32, 64, 128 and 512, and 8, the length of the        *)
(* up-sampling example.                                                    *)

NumSeeds == 2

BinCounts == {8, 16, 32, 64, 256}

BarCounts == {16, 17, 24, 48, 64, 100, 128}

Snapshot(n, seed) == [k \in 1..n |-> (k * k * seed + 7 * k + 31 * seed) % 256]

TakeSnapshot ==
    \E n \in BinCounts, seed \in 1..NumSeeds :
        /\ frequencyData' = Snapshot(n, seed)
        /\ last' = [op |-> "snapshot"]
        /\ UNCHANGED <<audioController, waveformModel, fourierVisualizer,
                       settings, mainState, loads, info, uploaded, barValues>>

\* createVisualizerBars(BAR_COUNT, RADIUS) of the tick: new meshes.
RebuildBars ==
    \E count \in BarCounts :
        /\ mainState' = [mainState EXCEPT !.BAR_COUNT = count,
                                          !.previousBarCount = count,
                                          !.meshCount = count]
        /\ barValues' = <<>>
        /\ last' = [op |-> "rebuildBars"]
        /\ UNCHANGED <<audioController, waveformModel, fourierVisualizer,
                       settings, loads, info, uploaded, frequencyData>>

AnimateRealtime ==
    /\ barValues' = reduceBars(frequencyData, mainState.meshCount)
    /\ last' = [op |-> "reduce"]
    /\ UNCHANGED <<audioController, waveformModel, fourierVisualizer, settings,
                   mainState, loads, info, uploaded, frequencyData>>

InitBinner ==
    /\ InitRest
    /\ frequencyData = Snapshot(FrequencyBinCount(DefaultFFTSize), 1)

NextBinner == TakeSnapshot \/ RebuildBars \/ AnimateRealtime

SpecBinner == InitBinner /\ [][NextBinner]_vars

-----------------------------------------------------------------------------
(* Loading a file into the waveform model.  onFileLoaded calls             *)
(* loadAudioFile, which is suspended until the file is read and decoded;   *)
(* loads holds the suspended handlers in the order they began.  The field  *)
(* superseded is history: it marks a load begun before the latest one.     *)

MaxLoads == 2

StatusGenerated == "3D Waveform Model generated! Switch to '3d-model' mode to view it."
StatusModelError == "Error generating 3D model"

RemoveAt(seq, i) == [j \in 1..(Len(seq) - 1) |-> IF j < i THEN seq[j] ELSE seq[j + 1]]

Supersede(seq) ==
    [j \in 1..Len(seq) |->
        IF seq[j].pc = "decode" THEN [seq[j] EXCEPT !.superseded = TRUE] ELSE seq[j]]

\* onFileLoaded(f) up to its await of loadAudioFile.
onFileLoaded(f) ==
    /\ Len(loads) < MaxLoads
    /\ loads' = Append(Supersede(loads),
                       [file |-> f, pc |-> "decode", superseded |-> FALSE])
    /\ uploaded' = f
    /\ last' = [op |-> "onFileLoaded"]
    /\ UNCHANGED <<audioController, waveformModel, fourierVisualizer,
                   settings, mainState, info, frequencyData, barValues>>

OnFileLoaded == \E f \in Files : onFileLoaded(f)

DecodeSettles ==
    \E i \in 1..Len(loads), ok \in BOOLEAN :
        /\ loads[i].pc = "decode"
        /\ LET w == loadAudioFileSettled(waveformModel, loads[i].file, ok)
           IN  /\ waveformModel' = resetMeters(w)
               /\ last' = [op |-> "decodeSettled", ok |-> ok,
                           file |-> loads[i].file,
                           superseded |-> loads[i].superseded,
                           created |-> w.created, disposed |-> w.disposed]
        /\ info' = IF ok THEN StatusGenerated ELSE StatusModelError
        /\ loads' = RemoveAt(loads, i)
        /\ UNCHANGED <<audioController, fourierVisualizer, settings, mainState,
                       uploaded, frequencyData, barValues>>

-----------------------------------------------------------------------------
(* SpecWave: WaveformModel3D driven through its methods: files are loaded, *)
(* the spread is set, the marker is placed for times within the loaded     *)
(* track and points of the hit-surface are mapped back to progress.        *)

SpreadInputs == {Rat(1, 2), ROne, Rat(3, 2), RInt(2), RInt(3)}

Quarters == {Rat(k, 4) : k \in 0..4}

PlaybackTimes(wm) ==
    IF wm.audioBuffer = 0 THEN {RZero}
    ELSE {RMul(q, Duration(wm.audioBuffer)) : q \in Quarters}

\* Points across the hit-surface, from its left edge (0) to its right edge
\* (1), and points of the same plane beyond either edge.
SurfaceFractions == {Rat(-1, 4), RZero, Rat(1, 4), Rat(1, 2), ROne, Rat(5, 4)}

CallSetSpread ==
    \E spread \in SpreadInputs :
        /\ LET w == setSpread(waveformModel, spread)
           IN  /\ waveformModel' = resetMeters(w)
               /\ last' = [op |-> "setSpread", spread |-> spread,
                           created |-> w.created, disposed |-> w.disposed]
        /\ UNCHANGED <<audioController, fourierVisualizer, settings, mainState,
                       loads, info, uploaded, frequencyData, barValues>>

CallUpdatePlayback ==
    \E t \in PlaybackTimes(waveformModel), playing \in BOOLEAN :
        /\ waveformModel' = updatePlayback(waveformModel, t, playing)
        /\ last' = [op |-> "updatePlayback", currentTime |-> t,
                    updated |-> (waveformModel.audioBuffer # 0
                                 /\ waveformModel.progressIndicator.exists)]
        /\ UNCHANGED <<audioController, fourierVisualizer, settings, mainState,
                       loads, info, uploaded, frequencyData, barValues>>

CallCalculateProgressFromPoint ==
    \E frac \in SurfaceFractions :
        /\ getHitArea(waveformModel).exists
        /\ last' = [op |-> "calculateProgressFromPoint", frac |-> frac,
                    result |-> calculateProgressFromPoint(
                                   waveformModel, SurfacePointX(waveformModel, frac))]
        /\ UNCHANGED <<audioController, waveformModel, fourierVisualizer,
                       settings, mainState, loads, info, uploaded, frequencyData,
                       barValues>>

NextWave ==
    \/ OnFileLoaded
    \/ DecodeSettles
    \/ CallSetSpread
    \/ CallUpdatePlayback
    \/ CallCalculateProgressFromPoint

SpecWave == InitAll /\ [][NextWave]_vars

-----------------------------------------------------------------------------
(* Spec: the main program.  Files are uploaded through the file input,     *)
(* the pointer is pressed, moved and released, the mode and the model's    *)
(* visibility in the lab are set on the panel, playback is toggled and     *)
(* advances, and the animation loop runs.  The spread stays at its         *)
(* default here; SpecWave drives it.                                       *)
(*                                                                         *)
(* The audio context is created before any gesture and starts suspended.   *)
(* The analyser's snapshot is a fixed pattern of the buffer's length.      *)

StatusPlaying == "Playing"
StatusLoadError == "Error: Could not load audio file"

\* The modes the tick and the pointer handlers tell apart.
Modes == {"realtime", "3d-model", "fourier-view"}

RayFractions == {Rat(1, 2)}

Rays == [wf : RayFractions \cup {Miss}, fr : BOOLEAN]

AnalyserSeed == 1

\* The file offered to the file input, and how many uploads may be in
\* flight at once.
MainFiles == {1}
MaxUploads == 1

\* The real-time pipeline of the loop: bar index reads bin index * step.
\* A bar holds the byte read; its height is that byte / 255 * 15 + 0.1.
strideBars(data, count) ==
    LET step == Len(data) \div count
    IN  [j \in 1..count |-> data[(j - 1) * step + 1]]

SetPcAt(seq, i, pc) == [seq EXCEPT ![i].pc = pc]

\* Assigning a new src and pausing the element reject the play() promises
\* still pending.
RejectPendingPlays(seq) ==
    [j \in 1..Len(seq) |->
        IF seq[j].pc = "play" THEN [seq[j] EXCEPT !.pc = "rejected"] ELSE seq[j]]

\* The change handler of the file input for file f, up to setupAudioFile's
\* first await or its throw.
fileInputChanged(f, attachThrows) ==
    LET ac1 == setupAudioFileBegin(audioController, f, attachThrows)
        task(pc) == [file |-> f, pc |-> pc, superseded |-> FALSE]
    IN  /\ Len(loads) < MaxUploads
        /\ IF ac1.threw
           THEN /\ audioController' = ac1
                /\ loads' = RejectPendingPlays(loads)
                /\ info' = StatusLoadError
           ELSE IF ac1.contextSuspended
           THEN /\ audioController' = ac1
                /\ loads' = Append(RejectPendingPlays(loads), task("resume"))
                /\ info' = info
           ELSE /\ audioController' = setupAudioFileResumed(ac1)
                /\ loads' = Append(RejectPendingPlays(loads), task("play"))
                /\ info' = info
        /\ last' = NoLast
        /\ UNCHANGED <<waveformModel, fourierVisualizer, settings,
                       mainState, uploaded, frequencyData, barValues>>

FileInputChange ==
    \E f \in MainFiles, attachThrows \in BOOLEAN :
        fileInputChanged(f, attachThrows)

\* audioContext.resume() resolves and setupAudioFile goes on to play().
ResumeSettles ==
    \E i \in 1..Len(loads) :
        /\ loads[i].pc = "resume"
        /\ audioController' = setupAudioFileResumed(audioController)
        /\ loads' = SetPcAt(loads, i, "play")
        /\ last' = NoLast
        /\ UNCHANGED <<waveformModel, fourierVisualizer, settings, mainState,
                       info, uploaded, frequencyData, barValues>>

\* audioElement.play() settles.  Resolved: the handler reports the file as
\* playing and calls onFileLoaded, which is suspended in loadAudioFile.
\* Rejected: the handler reports the error; a play() the page was not
\* allowed leaves the element paused.
PlaySettles ==
    \E i \in 1..Len(loads), ok \in BOOLEAN :
        /\ loads[i].pc \in {"play", "rejected"}
        /\ ok => loads[i].pc = "play"
        /\ IF ok
           THEN /\ loads' = SetPcAt(Supersede(loads), i, "decode")
                /\ info' = StatusPlaying
                /\ uploaded' = loads[i].file
                /\ audioController' = audioController
           ELSE /\ loads' = RemoveAt(loads, i)
                /\ info' = StatusLoadError
                /\ uploaded' = uploaded
                /\ audioController' =
                       IF loads[i].pc = "play"
                       THEN [audioController EXCEPT !.paused = TRUE]
                       ELSE audioController
        /\ last' = NoLast
        /\ UNCHANGED <<waveformModel, fourierVisualizer, settings, mainState,
                       frequencyData, barValues>>

ScrubType == IF settings.visualizationMode = "fourier-view"
             THEN "fourier" ELSE "waveform"

\* Whether the ray meets the hit-surface that a scrub of the type consults.
RayHits(type, ray) ==
    IF type = "waveform"
    THEN getHitArea(waveformModel).exists /\ ray.wf # Miss
    ELSE fourierVisualizer.hitArea /\ ray.fr

\* The surface on which the drag session in progress began, as far as the
\* observed handlers have recorded it.
Began(l) == IF "began" \in DOMAIN l THEN l.began ELSE "none"

\* onMouseMove.  An observed handler also records the surface on which the
\* session began and the surface the move was resolved against.
onMouseMove(observed) ==
    \E ray \in Rays :
        LET r == IF mainState.isDragging
                 THEN handleScrubbing(ScrubType, ray, waveformModel,
                                      fourierVisualizer, audioController)
                 ELSE [ac |-> audioController, seek |-> NoSeek]
        IN  /\ audioController' = r.ac
            /\ last' = IF observed
                       THEN [op |-> "mousemove",
                             hit |-> RayHits(ScrubType, ray),
                             seek |-> r.seek,
                             began |-> Began(last),
                             resolved |-> IF mainState.isDragging
                                          THEN ScrubType ELSE "none"]
                       ELSE [op |-> "mousemove",
                             hit |-> RayHits(ScrubType, ray),
                             seek |-> r.seek]
            /\ UNCHANGED <<waveformModel, fourierVisualizer, settings,
                           mainState, loads, info, uploaded, frequencyData,
                           barValues>>

OnMouseMove == onMouseMove(FALSE)

\* A faulty variant: a pointer-down begins a session in every mode.
startsSessionAnyMode(mode, hit) == hit

\* onMouseDown begins a drag session when the mode is not realtime and the
\* ray meets the waveform's or the lab's hit-surface.
startsSession(mode, hit) == mode # "realtime" /\ hit

onMouseDown(observed) ==
    \E ray \in Rays :
        LET type == IF RayHits("waveform", ray) THEN "waveform" ELSE "fourier"
            hit == RayHits("waveform", ray) \/ RayHits("fourier", ray)
            acts == startsSession(settings.visualizationMode, hit)
            r == IF acts
                 THEN handleScrubbing(type, ray, waveformModel,
                                      fourierVisualizer, audioController)
                 ELSE [ac |-> audioController, seek |-> NoSeek]
        IN  /\ audioController' = r.ac
            /\ mainState' = IF acts
                            THEN [mainState EXCEPT !.isDragging = TRUE,
                                                   !.controlsEnabled = FALSE]
                            ELSE mainState
            /\ last' = IF observed
                       THEN [op |-> "mousedown", hit |-> acts, seek |-> r.seek,
                             began |-> IF acts THEN type ELSE Began(last)]
                       ELSE [op |-> "mousedown", hit |-> acts, seek |-> r.seek]
            /\ UNCHANGED <<waveformModel, fourierVisualizer, settings, loads,
                           info, uploaded, frequencyData, barValues>>

OnMouseDown == onMouseDown(FALSE)

\* A faulty variant: the controls are given back but the session stays.
OnMouseUpKeepsSession ==
    /\ mainState' = [mainState EXCEPT !.controlsEnabled = TRUE]
    /\ last' = NoLast
    /\ UNCHANGED <<audioController, waveformModel, fourierVisualizer, settings,
                   loads, info, uploaded, frequencyData, barValues>>

OnMouseUp ==
    /\ mainState' = [mainState EXCEPT !.isDragging = FALSE,
                                      !.controlsEnabled = TRUE]
    /\ last' = NoLast
    /\ UNCHANGED <<audioController, waveformModel, fourierVisualizer, settings,
                   loads, info, uploaded, frequencyData, barValues>>

\* The mode control of the panel.  Observed, it keeps the record of the
\* session in progress.
setVisualizationMode(observed) ==
    \E m \in Modes :
        /\ settings' = [settings EXCEPT !.visualizationMode = m]
        /\ last' = IF observed
                   THEN [op |-> "setMode", began |-> Began(last)]
                   ELSE NoLast
        /\ UNCHANGED <<audioController, waveformModel, fourierVisualizer,
                       mainState, loads, info, uploaded, frequencyData,
                       barValues>>

SetVisualizationMode == setVisualizationMode(FALSE)

SetShowModelInFourier ==
    /\ settings' = [settings EXCEPT !.showModelInFourier = ~@]
    /\ last' = NoLast
    /\ UNCHANGED <<audioController, waveformModel, fourierVisualizer,
                   mainState, loads, info, uploaded, frequencyData, barValues>>

ClickPlayPause ==
    /\ audioController' = IF isPlaying(audioController)
                          THEN pause(audioController)
                          ELSE play(audioController)
    /\ last' = NoLast
    /\ UNCHANGED <<waveformModel, fourierVisualizer, settings, mainState,
                   loads, info, uploaded, frequencyData, barValues>>

\* The element plays on by half of its resource; at the end it stops.
TimeAdvance ==
    LET d == Duration(audioController.src)
        t == RMin(RAdd(audioController.currentTime, RDiv(d, RInt(2))), d)
    IN  /\ audioController.audioElement
        /\ ~audioController.paused
        /\ RLt(audioController.currentTime, d)
        /\ audioController' = [audioController EXCEPT !.currentTime = t,
                                                      !.paused = (t = d)]
        /\ last' = NoLast
        /\ UNCHANGED <<waveformModel, fourierVisualizer, settings, mainState,
                       loads, info, uploaded, frequencyData, barValues>>

fourierShow(fv) == [fv EXCEPT !.visible = TRUE]

\* A faulty variant: hide leaves the lab as it is.
fourierHideKeeps(fv) == fv

fourierHide(fv) == [fv EXCEPT !.visible = FALSE]

\* One pass of animate.  data is the snapshot the analyser hands out in
\* this pass.  An observed pass records what its settings checks did: whether
\* setFFTSize was called, whether the bars and the lab's components were
\* built anew, and how many waveform geometries were created.
animate(observed) ==
    LET s == settings
        ms == mainState
        ac1 == IF s.fftSize # ms.previousFFTSize
               THEN setFFTSize(audioController, s.fftSize)
               ELSE audioController
        rebuild == s.barCount # ms.previousBarCount \/ s.radius # ms.previousRadius
        ms1 == [ms EXCEPT !.previousFFTSize = s.fftSize,
                          !.BAR_COUNT = IF rebuild THEN s.barCount ELSE @,
                          !.RADIUS = IF rebuild THEN s.radius ELSE @,
                          !.meshCount = IF rebuild THEN s.barCount ELSE @,
                          !.previousBarCount = IF rebuild THEN s.barCount ELSE @,
                          !.previousRadius = IF rebuild THEN s.radius ELSE @,
                          !.previousSpread = s.waveformSpread]
        fv1 == IF rebuild THEN fourierUpdateBarCount(fourierVisualizer, s.barCount)
               ELSE fourierVisualizer
        wmS == IF s.waveformSpread # ms.previousSpread
               THEN setSpread(waveformModel, s.waveformSpread)
               ELSE waveformModel
        wm1 == resetMeters(wmS)
        bars1 == IF rebuild THEN <<>> ELSE barValues
        currentTime == getCurrentTime(ac1)
        playing == isPlaying(ac1)
        data == Snapshot(getFrequencyDataLen(ac1), AnalyserSeed)
    IN  /\ audioController' = ac1
        /\ last' = IF observed
                   THEN [op |-> "animate",
                         samplerSet |-> (s.fftSize # ms.previousFFTSize),
                         barsBuilt |-> rebuild,
                         labBuilt |-> (fv1 # fourierVisualizer),
                         waveCreated |-> wmS.created]
                   ELSE NoLast
        /\ UNCHANGED <<settings, loads, info, uploaded, frequencyData>>
        /\ IF s.visualizationMode = "3d-model"
           THEN /\ mainState' = [ms1 EXCEPT !.meshesVisible = FALSE]
                /\ waveformModel' = updatePlayback(show(wm1), currentTime, playing)
                /\ fourierVisualizer' = fourierHide(fv1)
                /\ barValues' = bars1
           ELSE IF s.visualizationMode = "fourier-view"
           THEN /\ mainState' = [ms1 EXCEPT !.meshesVisible = FALSE]
                /\ barValues' = bars1
                /\ IF getAudioInfo(wm1) # 0
                   THEN LET wmA == IF s.showModelInFourier THEN show(wm1)
                                   ELSE hide(wm1)
                            wmB == updatePlayback(
                                       [wmA EXCEPT !.positionX = RZero],
                                       currentTime, playing)
                            fvA == fourierShow(fourierSetPosition(
                                       fv1, RInt(LabPositionZ)))
                        IN  /\ waveformModel' = wmB
                            /\ fourierVisualizer' =
                                   fourierUpdate(fvA,
                                                 getTimeDomainDataLen(ac1),
                                                 getProgressPositionX(wmB),
                                                 RZero)
                   ELSE /\ waveformModel' = hide(wm1)
                        /\ fourierVisualizer' = fourierHide(fv1)
           ELSE /\ mainState' = [ms1 EXCEPT !.meshesVisible = TRUE]
                /\ waveformModel' = hide(wm1)
                /\ fourierVisualizer' = fourierHide(fv1)
                /\ barValues' = strideBars(data, ms1.BAR_COUNT)

Animate == animate(FALSE)

Next ==
    \/ FileInputChange
    \/ ResumeSettles
    \/ PlaySettles
    \/ DecodeSettles
    \/ OnMouseMove
    \/ OnMouseDown
    \/ OnMouseUp
    \/ SetVisualizationMode
    \/ SetShowModelInFourier
    \/ ClickPlayPause
    \/ TimeAdvance
    \/ Animate

Spec == InitAll /\ [][Next]_vars

-----------------------------------------------------------------------------
(* SpecSettings: the settings panel and the loop.  The panel's controls    *)
(* write the fields of settings and their status text; the loop compares   *)
(* the fields with the values it saw last.  The file of Spec may be handed *)
(* to the waveform model, so that the spread is changed both with and      *)
(* without a track.  The mode stays realtime.                              *)

FFTSizeOptions == {512, 1024}
BarCountInputs == {48, 64, 100}
\* The bar count is changed until the lab's time plane holds this many
\* complex-waveform lines.
MaxLabLines == 3
RadiusInputs == {10, 20}
SpreadSettings == {ROne, RInt(2)}

StatusFFTSize == "FFT size changed. Larger = more frequency bins (better resolution), but slower."
StatusBarCount == "Bar count changed. More bars = smoother circle distribution."
\* The text goes on with the formulas of x and z.
StatusRadius == "Radius changed. Affects polar coordinate calculation"

\* The text the spread control shows for the values of SpreadSettings.
StatusSpread(v) ==
    IF RLt(ROne, v) THEN "Waveform spread: 2.0x - More spread out"
    ELSE "Waveform spread: 1.0x - More compressed"

SetFFTSizeSetting ==
    \E v \in FFTSizeOptions :
        /\ settings' = [settings EXCEPT !.fftSize = v]
        /\ info' = StatusFFTSize
        /\ last' = NoLast
        /\ UNCHANGED <<audioController, waveformModel, fourierVisualizer,
                       mainState, loads, uploaded, frequencyData, barValues>>

SetBarCount ==
    \E v \in BarCountInputs :
        /\ fourierVisualizer.complexWaveformLines < MaxLabLines
        /\ settings' = [settings EXCEPT !.barCount = v]
        /\ info' = StatusBarCount
        /\ last' = NoLast
        /\ UNCHANGED <<audioController, waveformModel, fourierVisualizer,
                       mainState, loads, uploaded, frequencyData, barValues>>

SetRadius ==
    \E v \in RadiusInputs :
        /\ settings' = [settings EXCEPT !.radius = v]
        /\ info' = StatusRadius
        /\ last' = NoLast
        /\ UNCHANGED <<audioController, waveformModel, fourierVisualizer,
                       mainState, loads, uploaded, frequencyData, barValues>>

SetWaveformSpread ==
    \E v \in SpreadSettings :
        /\ settings' = [settings EXCEPT !.waveformSpread = v]
        /\ info' = StatusSpread(v)
        /\ last' = NoLast
        /\ UNCHANGED <<audioController, waveformModel, fourierVisualizer,
                       mainState, loads, uploaded, frequencyData, barValues>>

OnMainFileLoaded == \E f \in MainFiles : onFileLoaded(f)

AnimateObserved == animate(TRUE)

NextSettings ==
    \/ SetFFTSizeSetting
    \/ SetBarCount
    \/ SetRadius
    \/ SetWaveformSpread
    \/ OnMainFileLoaded
    \/ DecodeSettles
    \/ AnimateObserved

SpecSettings == InitAll /\ [][NextSettings]_vars

-----------------------------------------------------------------------------
(* SpecFirstLoad: the main program around its first track.  A file goes    *)
(* through the file input and its decode succeeds or fails; meanwhile the  *)
(* mode and the spread are set on the panel, the pointer is pressed, moved *)
(* and released and the loop runs.                                         *)

NextFirstLoad ==
    \/ FileInputChange
    \/ ResumeSettles
    \/ PlaySettles
    \/ DecodeSettles
    \/ OnMouseMove
    \/ OnMouseDown
    \/ OnMouseUp
    \/ SetVisualizationMode
    \/ SetWaveformSpread
    \/ AnimateObserved

SpecFirstLoad == InitAll /\ [][NextFirstLoad]_vars

-----------------------------------------------------------------------------
(* SpecReplace: the main program when the user uploads one file after      *)
(* another: the ten-second file 1 and the three-second file 3.  The panel  *)
(* stays on one upload at a time; the pointer, the mode and the transport  *)
(* are driven as in Spec.  Scrubbing reads nothing the loop writes but the *)
(* lab's position, so the loop is left to Spec.                            *)

ReplaceFiles == {1, 3}

FileInputChangeAny ==
    \E f \in ReplaceFiles, attachThrows \in BOOLEAN :
        fileInputChanged(f, attachThrows)

NextReplace ==
    \/ FileInputChangeAny
    \/ ResumeSettles
    \/ PlaySettles
    \/ DecodeSettles
    \/ OnMouseMove
    \/ OnMouseDown
    \/ OnMouseUp
    \/ SetVisualizationMode
    \/ ClickPlayPause
    \/ TimeAdvance

SpecReplace == InitAll /\ [][NextReplace]_vars

-----------------------------------------------------------------------------
(* SpecReplacePlay: files 1 and 3 are uploaded one after another, the      *)
(* transport plays on, the mode is set and the loop runs; the pointer is   *)
(* left to SpecReplace.                                                    *)

NextReplacePlay ==
    \/ FileInputChangeAny
    \/ ResumeSettles
    \/ PlaySettles
    \/ DecodeSettles
    \/ TimeAdvance
    \/ SetVisualizationMode
    \/ Animate

SpecReplacePlay == InitAll /\ [][NextReplacePlay]_vars

-----------------------------------------------------------------------------
(* Claims about the AudioController (SpecAudio).                           *)

ValidResolution(size) == \E k \in 5..15 : size = 2^k

SameSampler(a, b) ==
    /\ a.fftSize = b.fftSize
    /\ a.analyserFftSize = b.analyserFftSize
    /\ a.frequencyDataLen = b.frequencyDataLen
    /\ a.timeDomainDataLen = b.timeDomainDataLen

\* C1: after setFFTSize(size) with size a power of two in [32, 32768],
\* getFFTSize() is size, the frequency snapshot has size/2 entries and the
\* time-domain snapshot size entries; every snapshot handed out has the
\* length the configured size prescribes.
C1_ValidSizeAccepted ==
    /\ (last.op = "setFFTSize" /\ ValidResolution(last.size)) =>
          /\ ~audioController.threw
          /\ getFFTSize(audioController) = last.size
          /\ 2 * getFrequencyDataLen(audioController) = last.size
          /\ getTimeDomainDataLen(audioController) = last.size
    /\ last.op = "getFrequencyData" =>
          2 * last.len = getFFTSize(audioController)
    /\ last.op = "getTimeDomainData" =>
          last.len = getFFTSize(audioController)

C1_Witness ==
    /\ last.op = "setFFTSize"
    /\ last.size = 32768
    /\ last.before.fftSize = 32
    /\ getFrequencyDataLen(audioController) = 16384

\* C2: setFFTSize(size) with any other integer leaves the stored size, the
\* analyser's size and both buffer lengths as they were, and throws nothing.
C2_InvalidSizeRejected ==
    (last.op = "setFFTSize" /\ ~ValidResolution(last.size)) =>
        /\ ~audioController.threw
        /\ SameSampler(audioController, last.before)

C2_Witness ==
    /\ last.op = "setFFTSize"
    /\ last.size = 100
    /\ last.before.fftSize = 1024
    /\ audioController.fftSize = 1024

-----------------------------------------------------------------------------
(* Claims about the bar binner (SpecBinner).                               *)

RangeStart(i, B, N) == (i * N) \div B
RangeEnd(i, B, N) == ((i + 1) * N) \div B

RECURSIVE SumOver(_, _)
SumOver(data, bins) ==
    IF bins = {} THEN 0
    ELSE LET b == CHOOSE x \in bins : TRUE
         IN  data[b + 1] + SumOver(data, bins \ {b})

\* C3: with no more bars than bins, the ranges [floor(i*N/B), floor((i+1)*N/B))
\* are non-empty, follow one another from bin 0 to bin N, hold every bin
\* exactly once, and bar i's value is the mean of the snapshot over range i;
\* for 256 bins and 64 bars every range has four bins.
C3_DownsamplePartition ==
    LET N == Len(frequencyData)
        B == mainState.BAR_COUNT
        Range(i) == {b \in 0..(N - 1) : RangeStart(i, B, N) <= b /\ b < RangeEnd(i, B, N)}
    IN  (last.op = "reduce" /\ B <= N) =>
          /\ Len(barValues) = B
          /\ RangeStart(0, B, N) = 0
          /\ RangeEnd(B - 1, B, N) = N
          /\ \A i \in 0..(B - 1) :
                /\ Range(i) # {}
                /\ i < B - 1 => RangeEnd(i, B, N) = RangeStart(i + 1, B, N)
                /\ barValues[i + 1] = Rat(SumOver(frequencyData, Range(i)),
                                          Cardinality(Range(i)))
                /\ (N = 256 /\ B = 64) => Cardinality(Range(i)) = 4
          /\ \A b \in 0..(N - 1) :
                Cardinality({i \in 0..(B - 1) : b \in Range(i)}) = 1

C3_Witness ==
    /\ last.op = "reduce"
    /\ Len(frequencyData) = 256
    /\ mainState.BAR_COUNT = 100
    /\ Len(barValues) = 100
    /\ barValues[1] # barValues[2]

\* C4: with more bars than bins, bar i's value is snapshot[floor(i*N/B)],
\* whose index is within the snapshot; for 8 bins and 16 bars it is
\* snapshot[floor(i/2)].
C4_UpsampleNearest ==
    LET N == Len(frequencyData)
        B == mainState.BAR_COUNT
    IN  (last.op = "reduce" /\ B > N) =>
          /\ Len(barValues) = B
          /\ \A i \in 0..(B - 1) :
                /\ RangeStart(i, B, N) >= 0
                /\ RangeStart(i, B, N) < N
                /\ barValues[i + 1] = RInt(frequencyData[RangeStart(i, B, N) + 1])
                /\ (N = 8 /\ B = 16) =>
                      barValues[i + 1] = RInt(frequencyData[(i \div 2) + 1])

C4_Witness ==
    /\ last.op = "reduce"
    /\ Len(frequencyData) = 8
    /\ mainState.BAR_COUNT = 16
    /\ Len(barValues) = 16
    /\ barValues[3] = RInt(frequencyData[2])
    /\ barValues[3] # barValues[5]

-----------------------------------------------------------------------------
(* Claims about the waveform model (SpecWave).                             *)

BuiltLength(wm) == RMul(RInt(60), wm.spreadFactor)

MarkerWorldX(wm) == RAdd(wm.positionX, wm.progressIndicator.x)

Clamp01(r) == RMin(RMax(r, RZero), ROne)

\* C5: a built waveform has at most 8000 points, whatever the track's sample
\* count and the spread factor.
C5_PointCap ==
    waveformModel.waveformLine.exists =>
        waveformModel.waveformLine.count <= 8000

\* C6: a decode of an earlier upload that settles after every later upload's
\* decode has settled is discarded: it leaves the model's track and waveform
\* as they are.
C6_StaleDecodeDiscarded ==
    [][(last'.op = "decodeSettled" /\ last'.superseded /\ Len(loads) = 1)
           => waveformModel' = waveformModel]_vars

\* C7: after updatePlayback with a loaded track the marker's x is
\* progress * L - L/2, L being the length of the waveform as built
\* (60 * spreadFactor).
C7_MarkerOnWaveform ==
    (last.op = "updatePlayback" /\ last.updated) =>
        LET progress == RDiv(last.currentTime, Duration(waveformModel.audioBuffer))
            L == waveformModel.waveformLine.length
        IN  /\ L = BuiltLength(waveformModel)
            /\ waveformModel.progressIndicator.x =
                  RSub(RMul(progress, L), RDiv(L, RInt(2)))

\* C8: the marker placed by updatePlayback for a progress p in [0, 1] is
\* mapped back to p by calculateProgressFromPoint.
C8_RoundTrip ==
    (last.op = "updatePlayback" /\ last.updated) =>
        LET p == RDiv(last.currentTime, Duration(waveformModel.audioBuffer))
        IN  (RLe(RZero, p) /\ RLe(p, ROne)) =>
                calculateProgressFromPoint(waveformModel,
                                           MarkerWorldX(waveformModel)) = p

\* C9: the hit-surface is as wide as L = 60 * spreadFactor; a point of its
\* plane maps to (x + L/2)/L clamped to [0, 1], which is the point's fraction
\* of the way across the surface, so the left edge gives 0 and the right
\* edge 1.
C9_ScrubProgress ==
    /\ getHitArea(waveformModel).exists =>
          /\ getHitArea(waveformModel).width = BuiltLength(waveformModel)
          /\ calculateProgressFromPoint(
                 waveformModel, SurfacePointX(waveformModel, RZero)) = RZero
          /\ calculateProgressFromPoint(
                 waveformModel, SurfacePointX(waveformModel, ROne)) = ROne
    /\ last.op = "calculateProgressFromPoint" =>
          /\ RLe(RZero, last.result)
          /\ RLe(last.result, ROne)
          /\ last.result = Clamp01(last.frac)

C9_Witness ==
    /\ last.op = "calculateProgressFromPoint"
    /\ last.frac = ROne
    /\ last.result = ROne
    /\ waveformModel.spreadFactor = RInt(2)
    /\ getHitArea(waveformModel).width = RInt(120)

-----------------------------------------------------------------------------
(* Claims about scrubbing in the main program (Spec).                      *)

MouseOps == {"mousemove", "mousedown"}

\* C10: a pointer-down or pointer-move whose ray meets no hit-surface (or
\* finds none to meet) issues no seek and leaves the transport's position
\* and playing/paused state as they were; a pointer-move outside a drag
\* session issues no seek either.
C10_NoScrubNoSeek ==
    [][/\ (last'.op \in MouseOps /\ ~last'.hit)
            => (last'.seek = NoSeek /\ audioController' = audioController)
       /\ (last'.op = "mousemove" /\ ~mainState.isDragging)
            => (last'.seek = NoSeek /\ audioController' = audioController)]_vars

\* A move within a drag session has met nothing, with a track loaded in the
\* model and a file playing from a position a seek would have changed.
C10_Witness ==
    /\ last.op = "mousemove"
    /\ ~last.hit
    /\ last.seek = NoSeek
    /\ mainState.isDragging
    /\ getAudioInfo(waveformModel) # 0
    /\ getHitArea(waveformModel).exists
    /\ audioController.currentSourceType = "file"
    /\ isPlaying(audioController)
    /\ audioController.currentTime = RDiv(Duration(audioController.src), RInt(2))


\* C11: orbit controls are enabled exactly when no drag session is active; a
\* session begins only on a pointer-down that meets a hit-surface outside
\* realtime mode; a pointer-down in realtime mode or one that meets nothing
\* starts no session, disables nothing and issues no seek.
C11_DragDisablesControls ==
    [][/\ mainState.controlsEnabled = ~mainState.isDragging
       /\ mainState'.controlsEnabled = ~mainState'.isDragging
       /\ (~mainState.isDragging /\ mainState'.isDragging)
            => /\ last'.op = "mousedown"
               /\ last'.hit
               /\ settings.visualizationMode # "realtime"
       /\ (last'.op = "mousedown"
             /\ (settings.visualizationMode = "realtime" \/ ~last'.hit))
            => /\ mainState' = mainState
               /\ last'.seek = NoSeek
               /\ audioController' = audioController]_vars

\* A pointer-down has begun a session on a loaded waveform.
C11_Witness ==
    /\ last.op = "mousedown"
    /\ last.hit
    /\ last.seek # NoSeek
    /\ mainState.isDragging
    /\ ~mainState.controlsEnabled
    /\ settings.visualizationMode = "3d-model"

\* C12: a pointer-up, whether or not a drag is active, leaves no session
\* active and the controls enabled; from then on no seek is issued and no
\* session begins except by a pointer-down that meets a hit-surface.
C12_PointerUpEndsSession ==
    [][/\ OnMouseUp => (~mainState'.isDragging /\ mainState'.controlsEnabled)
       /\ (~mainState.isDragging /\ last' # NoLast /\ last'.op \in MouseOps
             /\ last'.seek # NoSeek)
            => (last'.op = "mousedown" /\ last'.hit)
       /\ (~mainState.isDragging /\ mainState'.isDragging)
            => (last'.op = "mousedown" /\ last'.hit)]_vars

\* A pointer has moved over the loaded waveform after the session ended, and
\* nothing was sought.
C12_Witness ==
    /\ last.op = "mousemove"
    /\ last.hit
    /\ last.seek = NoSeek
    /\ ~mainState.isDragging
    /\ mainState.controlsEnabled
    /\ getHitArea(waveformModel).exists
    /\ audioController.currentSourceType = "file"
    /\ audioController.currentTime # RZero

-----------------------------------------------------------------------------
(* Claims about scrubbing while files are replaced (SpecReplace).          *)

\* C13: every seek that scrubbing applies to the transport asks for a time
\* from 0 to the duration of the file the transport holds, also while the
\* transport already holds a newly uploaded file that the waveform model
\* has not decoded.
C13_SeekWithinTransport ==
    (/\ last.op \in MouseOps
     /\ last.seek # NoSeek
     /\ audioController.audioElement
     /\ audioController.currentSourceType = "file")
        => /\ RLe(RZero, last.seek)
           /\ RLe(last.seek, Duration(audioController.src))

-----------------------------------------------------------------------------
(* Claims about loading and the tick in the main program (Spec).           *)

\* C14: when the decode of an uploaded file fails, the waveform model keeps
\* the track and the geometry it had (no waveform is built), the status
\* text reads 'Error generating 3D model', and a tick that follows runs on
\* the track and the waveform that were kept.
C14_DecodeFailureKeepsTrack ==
    [][/\ (last'.op = "decodeSettled" /\ ~last'.ok)
            => /\ waveformModel' = waveformModel
               /\ info' = StatusModelError
       /\ (last.op = "decodeSettled" /\ ~last.ok /\ Animate)
            => /\ getAudioInfo(waveformModel') = getAudioInfo(waveformModel)
               /\ waveformModel'.waveformLine = waveformModel.waveformLine
               /\ getHitArea(waveformModel') = getHitArea(waveformModel)]_vars

\* A decode has failed while the model held a track with its marker moved
\* off the start by the tick.
C14_Witness ==
    /\ last.op = "decodeSettled"
    /\ ~last.ok
    /\ info = StatusModelError
    /\ getAudioInfo(waveformModel) # 0
    /\ waveformModel.waveformLine.exists
    /\ waveformModel.progressIndicator.x = RZero

-----------------------------------------------------------------------------
(* Claims about the waveform's geometry (SpecWave).                        *)

\* C15: setSpread(f) rebuilds the waveform exactly when f differs from the
\* current spread factor and a track is loaded; with the current factor it
\* changes nothing, disposing and creating no geometry; and a second call
\* with the same value does nothing more than the first.
C15_SetSpreadRebuildsIffChanged ==
    [][last'.op = "setSpread" =>
         LET changed == last'.spread # waveformModel.spreadFactor
             loaded == getAudioInfo(waveformModel) # 0
             rebuilt == last'.created > 0
         IN  /\ rebuilt <=> (changed /\ loaded)
             /\ rebuilt =>
                  /\ last'.disposed = ChildCount(waveformModel.children)
                  /\ last'.created = ChildCount(waveformModel'.children)
                  /\ waveformModel'.waveformLine.length
                         = RMul(RInt(60), last'.spread)
             /\ ~rebuilt => last'.disposed = 0
             /\ ~changed => waveformModel' = waveformModel
             /\ waveformModel'.spreadFactor = last'.spread
             /\ setSpread(waveformModel', last'.spread) = waveformModel']_vars

\* setSpread has been called with the factor in force on a loaded track
\* whose marker has left the start, and nothing was built or disposed.
C15_Witness ==
    /\ last.op = "setSpread"
    /\ last.created = 0
    /\ last.disposed = 0
    /\ last.spread = Rat(3, 2)
    /\ getAudioInfo(waveformModel) # 0
    /\ waveformModel.waveformLine.length = RInt(90)
    /\ waveformModel.progressIndicator.x = RZero

\* The children one build of the loaded track puts in the group.
OneBuild(wm) ==
    [waveformLine |-> 1, hitArea |-> 1, progressIndicator |-> 1,
     progressLine |-> 1, gridLines |-> GridLineCount(wm.audioBuffer)]

\* C16: after any file loads and spread changes the group holds the
\* geometry of exactly one build (one waveform line, one hit-surface, one
\* marker), made by the latest build for the track and spread in force,
\* and each build has removed and disposed all that the group held before.
C16_OneBuildInGroup ==
    [][/\ IF getAudioInfo(waveformModel') = 0
          THEN /\ waveformModel'.children = NoChildren
               /\ ~waveformModel'.waveformLine.exists
          ELSE /\ waveformModel'.children = OneBuild(waveformModel')
               /\ waveformModel'.waveformLine.exists
               /\ waveformModel'.waveformLine.track = waveformModel'.audioBuffer
               /\ waveformModel'.waveformLine.length
                      = RMul(RInt(60), waveformModel'.spreadFactor)
               /\ getHitArea(waveformModel').exists
               /\ getHitArea(waveformModel').width
                      = waveformModel'.waveformLine.length
               /\ waveformModel'.progressIndicator.exists
       /\ (last'.op \in {"decodeSettled", "setSpread"} /\ last'.created > 0)
            => /\ last'.disposed = ChildCount(waveformModel.children)
               /\ last'.created = ChildCount(waveformModel'.children)]_vars

\* The two-minute track has replaced another build: that build's children
\* were disposed and the group holds the new build alone.
C16_Witness ==
    /\ last.op = "decodeSettled"
    /\ last.ok
    /\ last.file = 2
    /\ last.disposed > 0
    /\ last.disposed # last.created
    /\ waveformModel.children = OneBuild(waveformModel)
    /\ waveformModel.children.gridLines = 130
    /\ waveformModel.spreadFactor = RInt(2)

\* Points of a line that are compared: the first two, the middle one and
\* the last.
ProbePoints(line) == {0, 1, line.count \div 2, line.count - 1}

SamePoints(a, b) ==
    /\ a.count = b.count
    /\ \A k \in ProbePoints(a) :
           /\ PointX(a, k) = PointX(b, k)
           /\ PointY(a, k) = PointY(b, k)

\* The waveform a model with nothing built before builds for a track and a
\* spread factor.
FirstBuild(track, spread) ==
    generateDynamicWaveform(
        [WaveformModelInit EXCEPT !.audioBuffer = track,
                                  !.spreadFactor = spread]).waveformLine

\* C17: the waveform's points depend on the track and the spread factor
\* alone: whatever was loaded and set before, the line has the point count
\* and coordinates of a first build for the track and spread in force; and
\* from spread 1, setSpread(2) then setSpread(1) gives back the points the
\* line had, setSpread(2) having moved them.
C17_PointsFunctionOfTrackAndSpread ==
    getAudioInfo(waveformModel) # 0 =>
        /\ waveformModel.waveformLine.exists
        /\ SamePoints(waveformModel.waveformLine,
                      FirstBuild(waveformModel.audioBuffer,
                                 waveformModel.spreadFactor))
        /\ waveformModel.spreadFactor = ROne =>
             LET wide == setSpread(waveformModel, RInt(2))
                 back == setSpread(wide, ROne)
             IN  /\ SamePoints(back.waveformLine, waveformModel.waveformLine)
                 /\ PointX(wide.waveformLine, 0)
                        = RMul(RInt(2), PointX(waveformModel.waveformLine, 0))
                 /\ ~SamePoints(wide.waveformLine, waveformModel.waveformLine)

\* The line of the ten-second track stands at spread 1 after the spread was
\* set to 2 and back to 1.
C17_Witness ==
    /\ last.op = "setSpread"
    /\ last.spread = ROne
    /\ last.created > 0
    /\ last.disposed > 0
    /\ waveformModel.audioBuffer = 1
    /\ waveformModel.waveformLine.length = RInt(60)
    /\ PointX(waveformModel.waveformLine, 0) = RInt(-30)

-----------------------------------------------------------------------------
(* Claims about the settings checks of the tick (SpecSettings).            *)

\* C18: a tick in which only barCount changed rebuilds the bar meshes and
\* the lab's bars and not the waveform; one in which only waveformSpread
\* changed rebuilds the waveform (of the track loaded, if any) and not the
\* bars; one in which only fftSize changed reconfigures the sampler and
\* rebuilds neither; one with no change rebuilds nothing.
C18_PerFieldChangeDetection ==
    [][last'.op = "animate" =>
         LET fftChanged == settings.fftSize # mainState.previousFFTSize
             barChanged == settings.barCount # mainState.previousBarCount
             radiusChanged == settings.radius # mainState.previousRadius
             spreadChanged ==
                 settings.waveformSpread # mainState.previousSpread
             tick == last'
             noBars == ~tick.barsBuilt /\ ~tick.labBuilt
                         /\ mainState'.meshCount = mainState.meshCount
                         /\ fourierVisualizer'.spectrumBars
                                = fourierVisualizer.spectrumBars
             noWave == tick.waveCreated = 0
                         /\ waveformModel'.waveformLine
                                = waveformModel.waveformLine
         IN  /\ (barChanged /\ ~fftChanged /\ ~radiusChanged /\ ~spreadChanged)
                  => /\ tick.barsBuilt
                     /\ mainState'.meshCount = settings.barCount
                     /\ tick.labBuilt
                     /\ fourierVisualizer'.spectrumBars = settings.barCount
                     /\ noWave
                     /\ ~tick.samplerSet
             /\ (spreadChanged /\ ~fftChanged /\ ~barChanged /\ ~radiusChanged)
                  => /\ (tick.waveCreated > 0)
                            <=> (getAudioInfo(waveformModel) # 0)
                     /\ waveformModel'.spreadFactor = settings.waveformSpread
                     /\ noBars
                     /\ ~tick.samplerSet
             /\ (fftChanged /\ ~barChanged /\ ~radiusChanged /\ ~spreadChanged)
                  => /\ tick.samplerSet
                     /\ getFFTSize(audioController') = settings.fftSize
                     /\ noBars
                     /\ noWave
             /\ (~fftChanged /\ ~barChanged /\ ~radiusChanged /\ ~spreadChanged)
                  => /\ ~tick.samplerSet
                     /\ getFFTSize(audioController') = getFFTSize(audioController)
                     /\ noBars
                     /\ noWave]_vars

-----------------------------------------------------------------------------
(* Claims about the visualization mode (Spec).                             *)

-----------------------------------------------------------------------------
(* Claims about the marker's progress (SpecWave).                          *)

\* C20: with a track loaded, updatePlayback works from the progress
\* currentTime / duration; at spread factor 1 it puts the marker at
\* x = progress * 60 - 30: 60 s of the 120 s track give progress 1/2 and
\* x = 0, and 5 s of the 10 s track give progress 1/2.
C20_ProgressIsTimeOverDuration ==
    (last.op = "updatePlayback" /\ last.updated) =>
        LET t == last.currentTime
            d == Duration(waveformModel.audioBuffer)
            progress == PlaybackProgress(waveformModel, t)
            x == waveformModel.progressIndicator.x
        IN  /\ RMul(progress, d) = t
            /\ waveformModel.spreadFactor = ROne
                 => x = RSub(RMul(progress, RInt(60)), RInt(30))
            /\ (d = RInt(120) /\ t = RInt(60))
                 => /\ progress = Rat(1, 2)
                    /\ waveformModel.spreadFactor = ROne => x = RZero
            /\ (d = RInt(10) /\ t = RInt(5)) => progress = Rat(1, 2)

\* The marker was placed for 60 s of the two-minute track at spread 1 and
\* stands at the centre.
C20_Witness ==
    /\ last.op = "updatePlayback"
    /\ last.updated
    /\ last.currentTime = RInt(60)
    /\ waveformModel.audioBuffer = 2
    /\ Duration(waveformModel.audioBuffer) = RInt(120)
    /\ waveformModel.spreadFactor = ROne
    /\ waveformModel.progressIndicator.x = RZero

-----------------------------------------------------------------------------
(* Claims about the program with no track loaded (SpecFirstLoad).          *)

\* What a tick may change of a waveform model that has no track.
WithoutView(wm) ==
    [wm EXCEPT !.visible = TRUE, !.spreadFactor = ROne, !.positionX = RZero]

\* C21: with no track loaded the model has no line, hit-surface or marker,
\* generateDynamicWaveform and updatePlayback change nothing, a tick in any
\* mode builds nothing and only records the spread factor and the
\* visibility, scrubbing issues no seek, and the first successful load
\* builds the waveform with the spread factor recorded by then.
C21_NoTrackNoWork ==
    [][getAudioInfo(waveformModel) = 0 =>
         /\ ~waveformModel.waveformLine.exists
         /\ ~getHitArea(waveformModel).exists
         /\ ~waveformModel.progressIndicator.exists
         /\ waveformModel.children = NoChildren
         /\ generateDynamicWaveform(waveformModel) = waveformModel
         /\ \A t \in {RZero, RInt(5)}, playing \in BOOLEAN :
                updatePlayback(waveformModel, t, playing) = waveformModel
         /\ last'.op = "animate"
              => /\ last'.waveCreated = 0
                 /\ WithoutView(waveformModel') = WithoutView(waveformModel)
                 /\ waveformModel'.spreadFactor = settings.waveformSpread
                 /\ ~fourierVisualizer'.visible
         /\ last'.op \in MouseOps
              => /\ last'.seek = NoSeek
                 /\ audioController' = audioController
         /\ (last'.op = "decodeSettled" /\ last'.ok)
              => /\ last'.disposed = 0
                 /\ waveformModel'.spreadFactor = waveformModel.spreadFactor
                 /\ waveformModel'.waveformLine.length
                        = RMul(RInt(60), waveformModel.spreadFactor)
                 /\ getHitArea(waveformModel').width
                        = RMul(RInt(60), waveformModel.spreadFactor)]_vars

\* The first track was built at spread 2, which a tick had recorded while
\* the model was empty.
C21_Witness ==
    /\ last.op = "decodeSettled"
    /\ last.ok
    /\ last.disposed = 0
    /\ last.created > 0
    /\ waveformModel.spreadFactor = RInt(2)
    /\ waveformModel.waveformLine.length = RInt(120)
    /\ audioController.currentSourceType = "file"

-----------------------------------------------------------------------------
(* Claims about the marker while files are replaced (SpecReplacePlay).     *)

\* The tick updates the marker in 3d-model mode and, with a track, in
\* fourier-view.
TickUpdatesMarker ==
    /\ settings.visualizationMode # "realtime"
    /\ getAudioInfo(waveformModel) # 0
    /\ waveformModel.progressIndicator.exists

\* C22: in every tick that updates the marker, the progress
\* currentTime / duration it uses lies in [0, 1] and the marker's x lies
\* within the waveform, also when the transport holds a second file while
\* the model still holds the previous track.
C22_MarkerProgressInRange ==
    [][(Animate /\ TickUpdatesMarker) =>
         LET progress == PlaybackProgress(waveformModel,
                                          getCurrentTime(audioController))
             half == RDiv(waveformModel'.waveformLine.length, RInt(2))
             x == waveformModel'.progressIndicator.x
         IN  /\ RLe(RZero, progress)
             /\ RLe(progress, ROne)
             /\ RLe(RSub(RZero, half), x)
             /\ RLe(x, half)]_vars

-----------------------------------------------------------------------------
(* Claims about the marker's height (SpecWave).                            *)

\* C23: for every currentTime from 0 to the duration, both included, the
\* marker's y is 6 times the raw sample of the first channel at index
\* floor(progress * sampleCount), and that index is one of the channel
\* data: 0 <= index < sampleCount.
C23_MarkerHeightIsRawSample ==
    (last.op = "updatePlayback" /\ last.updated) =>
        LET track == waveformModel.audioBuffer
            n == SampleCount(track)
            progress == RDiv(last.currentTime, Duration(track))
            index == RFloor(RMul(progress, RInt(n)))
        IN  /\ 0 <= index
            /\ index < n
            /\ waveformModel.progressIndicator.y
                   = RMul(RInt(6), ChannelData(track, index))

-----------------------------------------------------------------------------
(* SpecStride: the real-time pipeline of the lab-enabled loop, which reads *)
(* one bin per bar at a fixed stride, applied to the snapshots and bar     *)
(* counts of SpecBinner.  last.read holds the bin index each bar read.     *)

\* const dataIndex = index * step, with step = floor(length / BAR_COUNT).
strideIndex(index, barCount, totalBins) == index * (totalBins \div barCount)

AnimateStride ==
    /\ barValues' = strideBars(frequencyData, mainState.meshCount)
    /\ last' = [op |-> "stride",
                read |-> [j \in 1..mainState.meshCount |->
                             strideIndex(j - 1, mainState.meshCount,
                                         Len(frequencyData))]]
    /\ UNCHANGED <<audioController, waveformModel, fourierVisualizer, settings,
                   mainState, loads, info, uploaded, frequencyData>>

NextStride == TakeSnapshot \/ RebuildBars \/ AnimateStride

SpecStride == InitBinner /\ [][NextStride]_vars

\* C24: for every bin count N and bar count B in 16..128 the stride-based
\* reduction agrees with the exact-partition rule: when B <= N bar i reads
\* a bin of its own range, floor(i*N/B) up to floor((i+1)*N/B), and when
\* B > N bar i reads bin floor(i*N/B); the bar holds the byte of that bin.
C24_StrideAgreesWithPartition ==
    (/\ last.op = "stride"
     /\ Len(frequencyData) \in 16..128
     /\ mainState.meshCount \in 16..128) =>
        LET N == Len(frequencyData)
            B == mainState.meshCount
        IN  \A i \in 0..(B - 1) :
                /\ barValues[i + 1] = frequencyData[last.read[i + 1] + 1]
                /\ B <= N => /\ startBinOf(i, B, N) <= last.read[i + 1]
                             /\ last.read[i + 1] < endBinOf(i, B, N)
                /\ B > N => last.read[i + 1] = startBinOf(i, B, N)

-----------------------------------------------------------------------------
(* Claims about the layers a tick leaves visible (Spec).                   *)

ModelHiddenInFourier ==
    /\ settings.visualizationMode = "fourier-view"
    /\ getAudioInfo(waveformModel) # 0
    /\ ~settings.showModelInFourier

\* C25: at the end of every tick the visible layers are a function of the
\* mode, the presence of a track and the lab toggle: the bars are visible
\* exactly in realtime; the lab exactly in fourier-view with a track; the
\* waveform model in 3d-model, and in fourier-view exactly when a track is
\* loaded and showModelInFourier is on.  When the model is hidden in
\* fourier-view the marker is still moved to the transport's time and the
\* lab's time plane to the marker.
C25_LayersFollowMode ==
    [][Animate =>
         LET mode == settings.visualizationMode
             track == getAudioInfo(waveformModel) # 0
             progress == RDiv(getCurrentTime(audioController),
                              Duration(waveformModel.audioBuffer))
         IN  /\ mainState'.meshesVisible = (mode = "realtime")
             /\ fourierVisualizer'.visible = (mode = "fourier-view" /\ track)
             /\ waveformModel'.visible =
                    \/ mode = "3d-model"
                    \/ mode = "fourier-view" /\ track /\ settings.showModelInFourier
             /\ ModelHiddenInFourier =>
                    /\ waveformModel'.progressIndicator.x
                           = RSub(RMul(progress, RInt(60)), RInt(30))
                    /\ fourierVisualizer'.timePlaneX
                           = waveformModel'.progressIndicator.x
                    /\ fourierVisualizer'.positionZ = RInt(LabPositionZ)]_vars

C25_Witness ==
    /\ ModelHiddenInFourier
    /\ ~waveformModel.visible
    /\ fourierVisualizer.visible
    /\ ~mainState.meshesVisible
    /\ getCurrentTime(audioController) = RInt(5)
    /\ waveformModel.progressIndicator.x = RZero
    /\ fourierVisualizer.timePlaneX = RZero

-----------------------------------------------------------------------------
(* SpecLab: the calls the loop makes on the lab and on the sampler.  The   *)
(* FFT size takes the values the settings panel offers, the bar count the  *)
(* values of BarCountInputs; the fourier-view pass places, shows and       *)
(* updates the lab with the sampler's time-domain snapshot and a tracking  *)
(* position a quarter, a half, ... of the way along the track.             *)

PanelFFTSizes == {128, 256, 512, 1024, 2048}

\* audioController.setFFTSize(educationalUI.settings.fftSize) of the loop.
LabSetFFTSize ==
    \E size \in PanelFFTSizes :
        /\ audioController' = setFFTSize(audioController, size)
        /\ last' = [op |-> "setFFTSize"]
        /\ UNCHANGED <<waveformModel, fourierVisualizer, settings, mainState,
                       loads, info, uploaded, frequencyData, barValues>>

\* fourierVisualizer.updateBarCount(BAR_COUNT) of the loop.
LabUpdateBarCount ==
    \E count \in BarCountInputs :
        /\ fourierVisualizer.complexWaveformLines < MaxLabLines
        /\ fourierVisualizer' = fourierUpdateBarCount(fourierVisualizer, count)
        /\ last' = [op |-> "updateBarCount",
                    current |-> (count = fourierVisualizer.barCount),
                    unchanged |-> (fourierVisualizer' = fourierVisualizer)]
        /\ UNCHANGED <<audioController, waveformModel, settings, mainState,
                       loads, info, uploaded, frequencyData, barValues>>

\* The fourier-view pass with a track: setPosition, show, update.
LabShowAndUpdate ==
    \E q \in Quarters :
        LET timeDataLen == getTimeDomainDataLen(audioController)
            trackingX == RSub(RMul(q, RInt(updatePlaybackLength)),
                              RInt(updatePlaybackLength \div 2))
        IN  /\ fourierVisualizer' =
                   fourierUpdate(fourierShow(fourierSetPosition(
                                     fourierVisualizer, RInt(LabPositionZ))),
                                 timeDataLen, trackingX, RZero)
            /\ last' = [op |-> "labUpdate", timeDataLen |-> timeDataLen,
                        read |-> complexWaveformPoints]
            /\ UNCHANGED <<audioController, waveformModel, settings, mainState,
                           loads, info, uploaded, frequencyData, barValues>>

\* The passes that hide the lab.
LabHide ==
    /\ fourierVisualizer' = fourierHide(fourierVisualizer)
    /\ last' = [op |-> "labHide"]
    /\ UNCHANGED <<audioController, waveformModel, settings, mainState,
                   loads, info, uploaded, frequencyData, barValues>>

NextLab == LabSetFFTSize \/ LabUpdateBarCount \/ LabShowAndUpdate \/ LabHide

SpecLab == InitAll /\ [][NextLab]_vars

\* C26: update reads only valid indices of the time-domain snapshot it is
\* given: for every FFT size of the panel, 128 and 256 included, every
\* index read is smaller than the snapshot's length, so no point of the
\* complex waveform is computed from a missing sample.
C26_UpdateReadsWithinSnapshot ==
    /\ fourierVisualizer.complexWaveformNaNs = 0
    /\ last.op = "labUpdate" => last.read - 1 < last.timeDataLen

\* C27: after construction and after any sequence of updateBarCount calls
\* the lab holds exactly barCount spectrum bars and barCount sine-wave
\* lines and its time plane exactly one complex-waveform line;
\* updateBarCount with the current count changes nothing.
C27_LabComponentCounts ==
    /\ fourierVisualizer.spectrumBars = fourierVisualizer.barCount
    /\ fourierVisualizer.sineWaves = fourierVisualizer.barCount
    /\ fourierVisualizer.complexWaveformLines = 1
    /\ (last.op = "updateBarCount" /\ last.current) => last.unchanged

-----------------------------------------------------------------------------
(* SpecDrag: drag sessions.  A track is handed to the waveform model, the  *)
(* pointer is pressed, moved and released and the mode is changed; the     *)
(* observed handlers keep, in last, the surface on which the session in    *)
(* progress began.                                                         *)

MouseDownObserved == onMouseDown(TRUE)
MouseMoveObserved == onMouseMove(TRUE)
SetModeObserved == setVisualizationMode(TRUE)

NextDrag ==
    \/ OnMainFileLoaded
    \/ DecodeSettles
    \/ MouseDownObserved
    \/ MouseMoveObserved
    \/ OnMouseUp
    \/ SetModeObserved

SpecDrag == InitAll /\ [][NextDrag]_vars

\* C28: throughout a drag session every seek is resolved against the
\* hit-surface on which the session began: a session begun on the
\* waveform's hit-surface never has a pointer-move that seeks resolved
\* against the lab's, nor the other way round, whatever the mode is or
\* becomes during the drag.
C28_SessionKeepsItsSurface ==
    [](( /\ last.op = "mousemove"
         /\ last.seek # NoSeek
         /\ Began(last) # "none") => last.resolved = Began(last))

-----------------------------------------------------------------------------
(* SpecSource: the source panel.  The microphone button calls              *)
(* setupMicrophone, which waits for getUserMedia (granted or refused) and, *)
(* when the context is suspended, for resume(); the file input calls       *)
(* setupAudioFile as in Spec; the play/pause button and seek act on the    *)
(* controller.  loads holds the suspended handlers of both kinds.          *)

StatusMicrophone == "Using MICROPHONE as audio source"
StatusMicError == "Error: Could not access microphone"

\* setupMicrophone up to its await of getUserMedia.
setupMicrophoneBegin(ac) == disconnectAllSources(ac)

\* createMediaStreamSource and connect, once the stream is granted.
setupMicrophoneConnected(ac) == [ac EXCEPT !.micSource = TRUE]

\* setupMicrophone once the context is running.
setupMicrophoneResumed(ac) ==
    [ac EXCEPT !.contextSuspended = FALSE, !.currentSourceType = "microphone"]

UseMicClick ==
    /\ Len(loads) < MaxUploads
    /\ audioController' = setupMicrophoneBegin(audioController)
    /\ loads' = Append(loads, [file |-> 0, pc |-> "getUserMedia",
                               superseded |-> FALSE])
    /\ last' = [op |-> "useMic"]
    /\ UNCHANGED <<waveformModel, fourierVisualizer, settings, mainState,
                   info, uploaded, frequencyData, barValues>>

MicStreamSettles ==
    \E i \in 1..Len(loads), ok \in BOOLEAN :
        /\ loads[i].pc = "getUserMedia"
        /\ IF ~ok
           THEN /\ audioController' = audioController
                /\ loads' = RemoveAt(loads, i)
                /\ info' = StatusMicError
           ELSE LET ac1 == setupMicrophoneConnected(audioController)
                IN  IF ac1.contextSuspended
                    THEN /\ audioController' = ac1
                         /\ loads' = SetPcAt(loads, i, "micResume")
                         /\ info' = info
                    ELSE /\ audioController' = setupMicrophoneResumed(ac1)
                         /\ loads' = RemoveAt(loads, i)
                         /\ info' = StatusMicrophone
        /\ last' = [op |-> "micStream", ok |-> ok]
        /\ UNCHANGED <<waveformModel, fourierVisualizer, settings, mainState,
                       uploaded, frequencyData, barValues>>

MicResumeSettles ==
    \E i \in 1..Len(loads) :
        /\ loads[i].pc = "micResume"
        /\ audioController' = setupMicrophoneResumed(audioController)
        /\ loads' = RemoveAt(loads, i)
        /\ info' = StatusMicrophone
        /\ last' = [op |-> "micResumed"]
        /\ UNCHANGED <<waveformModel, fourierVisualizer, settings, mainState,
                       uploaded, frequencyData, barValues>>

\* controller.seek(time), with the times of the waveform's quarters.
CallSeek ==
    \E q \in Quarters :
        /\ audioController' = seek(audioController, RMul(q, RInt(10)))
        /\ last' = [op |-> "seek"]
        /\ UNCHANGED <<waveformModel, fourierVisualizer, settings, mainState,
                       loads, info, uploaded, frequencyData, barValues>>

NextSource ==
    \/ UseMicClick
    \/ MicStreamSettles
    \/ MicResumeSettles
    \/ FileInputChange
    \/ ResumeSettles
    \/ PlaySettles
    \/ DecodeSettles
    \/ ClickPlayPause
    \/ CallSeek
    \/ TimeAdvance

SpecSource == InitAll /\ [][NextSource]_vars

NoSetupInProgress ==
    \A i \in 1..Len(loads) : loads[i].pc \notin {"getUserMedia", "micResume", "resume"}

\* C29: in every state the controller is in between its set-up calls, also
\* after a setupMicrophone or setupAudioFile that failed part-way, the
\* recorded source type matches the connected source: 'microphone' implies
\* a connected microphone source, 'file' a connected file source; and with
\* no source connected play, pause and seek leave the audio element as it
\* is.
C29_SourceTypeMatchesConnection ==
    NoSetupInProgress =>
        /\ audioController.currentSourceType = "microphone"
               => audioController.micSource
        /\ audioController.currentSourceType = "file"
               => audioController.fileSource
        /\ (~audioController.micSource /\ ~audioController.fileSource) =>
               /\ play(audioController) = audioController
               /\ pause(audioController) = audioController
               /\ \A q \in Quarters :
                      seek(audioController, RMul(q, RInt(10))) = audioController

-----------------------------------------------------------------------------
(* Claims about scrubbing on the lab (Spec).                               *)

\* C30: in fourier-view with a loaded track a scrub resolved on the lab's
\* hit-surface returns the progress that placed the scanner: after a tick
\* has placed the marker for progress p and moved the time plane to it with
\* update, calculateProgressFromPoint of a point of the lab's hit-surface
\* is p.
C30_LabScrubRoundTrip ==
    [][(/\ Animate
        /\ settings.visualizationMode = "fourier-view"
        /\ getAudioInfo(waveformModel) # 0) =>
           LET p == PlaybackProgress(waveformModel,
                                     getCurrentTime(audioController))
           IN  /\ fourierVisualizer'.visible
               /\ fourierVisualizer'.timePlaneX
                      = waveformModel'.progressIndicator.x
               /\ fourierCalculateProgressFromPoint(
                      fourierVisualizer', FourierHitZ(fourierVisualizer')) = p]_vars

=============================================================================
